---- MODULE Spec2Model ----
(***************************************************************************)
(* Model of src/main.py: the TCP session handler handle_tcp_client and the *)
(* content classifier DataProcessor.                                       *)
(*                                                                         *)
(* Bytes are integers 0..255, byte strings and decoded text are sequences  *)
(* of integers (bytes, resp. Unicode code points).                         *)
(***************************************************************************)
EXTENDS Integers, Sequences, FiniteSets, TLC

(***************************************************************************)
(* Bounds of the model.                                                    *)
(***************************************************************************)
\* non-empty chunks one session reads before the peer stops sending
MaxMessages == 258
\* idle timeouts one session sees
MaxTimeouts == 2
\* chunks shorter than a full read that the peer sends in one session
MaxShort == 2
\* bytes appended after the signature in the enumerated classifier inputs
MaxTail == 2
\* non-empty chunks per session when two sessions run concurrently
MaxConcurrentMessages == 1
\* idle timeouts per session when two sessions run concurrently
MaxConcurrentTimeouts == 1

(***************************************************************************)
(* Program constants.                                                      *)
(***************************************************************************)
\* reader.read(4096)
READ_SIZE == 4096
\* len(data_buffer) > 1024 * 1024
BUFFER_CAP == 1048576
\* format_binary_data(data, max_bytes = 64)
MAX_BYTES == 64

(***************************************************************************)
(* Sequence helpers (Python str / bytes primitives).                       *)
(***************************************************************************)
Min(S) == CHOOSE x \in S : \A y \in S : x <= y

\* s.startswith(p)
startswith(s, p) == Len(s) >= Len(p) /\ SubSeq(s, 1, Len(p)) = p

\* s.startswith((p1, p2, ...)): P is the set of prefixes
startswith_any(s, P) == \E p \in P : startswith(s, p)

\* c in s
contains(s, c) == \E i \in 1..Len(s) : s[i] = c

\* s[i:i+len(p)] == p  (1-based i)
match_at(s, i, p) == i >= 1 /\ i + Len(p) - 1 <= Len(s) /\ SubSeq(s, i, i + Len(p) - 1) = p

\* p in s[:n]  (bytes containment)
contains_sub(s, n, p) ==
    \E i \in 1..Len(s) : i + Len(p) - 1 <= (IF n < Len(s) THEN n ELSE Len(s)) /\ match_at(s, i, p)

\* str.isspace(): the code points str.strip() removes and the regex \s matches
IsSpace(c) ==
    c \in (9..13) \cup (28..32) \cup {133, 160, 5760} \cup (8192..8202)
          \cup {8232, 8233, 8239, 8287, 12288}

\* regex \w on str: alphanumeric code points and "_".  Exact below U+0370; from
\* there up, the punctuation, currency and pictograph blocks are taken as not
\* word characters and every other code point as a word character.
IsWord(c) ==
    \/ c \in (48..57) \cup (65..90) \cup {95} \cup (97..122)
    \/ c \in {170, 178, 179, 181, 185, 186, 188, 189, 190}
    \/ c \in (192..214) \cup (216..246) \cup (248..705)
    \/ c \in (710..721) \cup (736..740) \cup {748, 750}
    \/ /\ c >= 880
       /\ c \notin (8192..8303) \cup (8352..8399) \cup (126976..129791)

\* str.lower() per code point: exact below 256, where alone it can produce the
\* ASCII letters the prefix tests look for
LowerChar(c) ==
    IF c \in (65..90) \cup (192..214) \cup (216..222) THEN c + 32 ELSE c

lower(s) == [i \in 1..Len(s) |-> LowerChar(s[i])]

\* str.strip(): from the first to the last code point that is not whitespace
strip(s) ==
    LET n == Len(s)
    IN  IF \A i \in 1..n : IsSpace(s[i]) THEN <<>>
        ELSE LET first == CHOOSE i \in 1..n :
                              ~IsSpace(s[i]) /\ \A j \in 1..(i - 1) : IsSpace(s[j])
                 last  == CHOOSE i \in 1..n :
                              ~IsSpace(s[i]) /\ \A j \in (i + 1)..n : IsSpace(s[j])
             IN  SubSeq(s, first, last)

\* str.split("\n"): the k-th piece (1-based) and the number of pieces
NewlinePositions(s) == {i \in 1..Len(s) : s[i] = 10}

NthNewline(s, k) ==
    CHOOSE p \in NewlinePositions(s) : Cardinality({q \in NewlinePositions(s) : q < p}) = k - 1

split_count(s) == Cardinality(NewlinePositions(s)) + 1

split_line(s, k) ==
    LET from == IF k = 1 THEN 1 ELSE NthNewline(s, k - 1) + 1
        to   == IF k = split_count(s) THEN Len(s) ELSE NthNewline(s, k) - 1
    IN  SubSeq(s, from, to)

(***************************************************************************)
(* bytes.decode(encoding), strict error handling.  A result is             *)
(* [ok |-> BOOLEAN, text |-> code points]; ok = FALSE is UnicodeDecodeError.*)
(***************************************************************************)
DecodeError == [ok |-> FALSE, text |-> <<>>]

Decoded(t) == [ok |-> TRUE, text |-> t]

IsCont(data, i) == i <= Len(data) /\ data[i] \in 128..191

\* number of bytes of the well-formed UTF-8 sequence starting at data[i], 0 if none
Utf8Len(data, i) ==
    LET b == data[i]
        b2 == IF i + 1 <= Len(data) THEN data[i + 1] ELSE 0
    IN  IF b < 128 THEN 1
        ELSE IF b \in 194..223 /\ IsCont(data, i + 1) THEN 2
        ELSE IF b = 224 /\ b2 \in 160..191 /\ IsCont(data, i + 2) THEN 3
        ELSE IF b \in (225..236) \cup {238, 239} /\ IsCont(data, i + 1) /\ IsCont(data, i + 2) THEN 3
        ELSE IF b = 237 /\ b2 \in 128..159 /\ IsCont(data, i + 2) THEN 3
        ELSE IF b = 240 /\ b2 \in 144..191 /\ IsCont(data, i + 2) /\ IsCont(data, i + 3) THEN 4
        ELSE IF b \in 241..243 /\ IsCont(data, i + 1) /\ IsCont(data, i + 2) /\ IsCont(data, i + 3) THEN 4
        ELSE IF b = 244 /\ b2 \in 128..143 /\ IsCont(data, i + 2) /\ IsCont(data, i + 3) THEN 4
        ELSE 0

\* code point of the n-byte sequence at data[i]
Utf8CodePoint(data, i, n) ==
    IF n = 1 THEN data[i]
    ELSE IF n = 2 THEN (data[i] - 192) * 64 + (data[i + 1] - 128)
    ELSE IF n = 3 THEN (data[i] - 224) * 4096 + (data[i + 1] - 128) * 64 + (data[i + 2] - 128)
    ELSE (data[i] - 240) * 262144 + (data[i + 1] - 128) * 4096
         + (data[i + 2] - 128) * 64 + (data[i + 3] - 128)

RECURSIVE Utf8From(_, _)
Utf8From(data, i) ==
    IF i > Len(data) THEN Decoded(<<>>)
    ELSE LET n == Utf8Len(data, i)
         IN  IF n = 0 THEN DecodeError
             ELSE LET rest == Utf8From(data, i + n)
                  IN  IF rest.ok
                      THEN Decoded(<<Utf8CodePoint(data, i, n)>> \o rest.text)
                      ELSE DecodeError

\* data.decode('utf-8'); pure ASCII decodes to itself
decode_utf8(data) ==
    IF \A i \in 1..Len(data) : data[i] < 128 THEN Decoded(data) ELSE Utf8From(data, 1)

\* data.decode('ascii')
decode_ascii(data) ==
    IF \A i \in 1..Len(data) : data[i] < 128 THEN Decoded(data) ELSE DecodeError

\* data.decode('latin-1'), data.decode('iso-8859-1'): every byte is its code point
decode_latin1(data) == Decoded(data)

\* the bytes 0x80..0x9f of cp1252; 0 marks the five undefined ones
Cp1252High ==
    <<8364, 0, 8218, 402, 8222, 8230, 8224, 8225, 710, 8240, 352, 8249, 338, 0, 381, 0,
      0, 8216, 8217, 8220, 8221, 8226, 8211, 8212, 732, 8482, 353, 8250, 339, 0, 382, 376>>

\* data.decode('cp1252')
decode_cp1252(data) ==
    IF \E i \in 1..Len(data) : data[i] \in 128..159 /\ Cp1252High[data[i] - 127] = 0
    THEN DecodeError
    ELSE Decoded([i \in 1..Len(data) |->
                    IF data[i] \in 128..159 THEN Cp1252High[data[i] - 127] ELSE data[i]])

decode(data, encoding) ==
    CASE encoding = "utf-8" -> decode_utf8(data)
      [] encoding = "ascii" -> decode_ascii(data)
      [] encoding = "latin-1" -> decode_latin1(data)
      [] encoding = "cp1252" -> decode_cp1252(data)
      [] encoding = "iso-8859-1" -> decode_latin1(data)

\* a variant of the list without the two names of latin-1
encodings_without_latin1 == <<"utf-8", "ascii", "cp1252">>

\* encodings = ['utf-8', 'ascii', 'latin-1', 'cp1252', 'iso-8859-1']
encodings == <<"utf-8", "ascii", "latin-1", "cp1252", "iso-8859-1">>

RECURSIVE TryEncodings(_, _, _)
TryEncodings(data, encs, k) ==
    IF k > Len(encs) THEN DecodeError
    ELSE LET r == decode(data, encs[k])
         IN  IF r.ok THEN r ELSE TryEncodings(data, encs, k + 1)

\* DataProcessor.try_decode_text: ok = FALSE is the None result
try_decode_text(data) == TryEncodings(data, encodings, 1)

(***************************************************************************)
(* json.loads(text) succeeds: the grammar of Python's json scanner.        *)
(* A scanner returns the index after what it read, or NoMatch.             *)
(***************************************************************************)
NoMatch == 0

IsDigit(c) == c \in 48..57

IsHex(c) == c \in (48..57) \cup (65..70) \cup (97..102)

\* the JSON whitespace: space, \t, \n, \r
JsonWs == {32, 9, 10, 13}

\* index of the first non-whitespace code point at or after i
json_ws(s, i) ==
    LET rest == {j \in i..Len(s) : s[j] \notin JsonWs}
    IN  IF rest = {} THEN (IF i > Len(s) THEN i ELSE Len(s) + 1) ELSE Min(rest)

\* index after the digits starting at i (i itself when there is none)
digits_end(s, i) ==
    LET stop == {j \in i..Len(s) : ~IsDigit(s[j])}
    IN  IF stop = {} THEN (IF i > Len(s) THEN i ELSE Len(s) + 1) ELSE Min(stop)

\* -?(0|[1-9]\d*)(\.\d+)?([eE][-+]?\d+)?
json_number(s, i) ==
    LET a == IF i <= Len(s) /\ s[i] = 45 THEN i + 1 ELSE i
        b == IF a > Len(s) \/ ~IsDigit(s[a]) THEN NoMatch
             ELSE IF s[a] = 48 THEN a + 1 ELSE digits_end(s, a)
        c == IF b # NoMatch /\ b < Len(s) /\ s[b] = 46 /\ IsDigit(s[b + 1])
             THEN digits_end(s, b + 1) ELSE b
        e == IF c # NoMatch /\ c <= Len(s) /\ s[c] \in {69, 101}
             THEN (IF c + 1 <= Len(s) /\ s[c + 1] \in {43, 45} THEN c + 2 ELSE c + 1)
             ELSE NoMatch
    IN  IF b = NoMatch THEN NoMatch
        ELSE IF e # NoMatch /\ e <= Len(s) /\ IsDigit(s[e]) THEN digits_end(s, e)
        ELSE c

\* the characters after the opening quote, up to and including the closing one
RECURSIVE json_string(_, _)
json_string(s, i) ==
    IF i > Len(s) THEN NoMatch
    ELSE IF s[i] = 34 THEN i + 1
    ELSE IF s[i] < 32 THEN NoMatch
    ELSE IF s[i] # 92 THEN json_string(s, i + 1)
    ELSE IF i + 1 > Len(s) THEN NoMatch
    ELSE IF s[i + 1] \in {34, 92, 47, 98, 102, 110, 114, 116} THEN json_string(s, i + 2)
    ELSE IF s[i + 1] = 117 /\ i + 5 <= Len(s) /\ \A k \in 2..5 : IsHex(s[i + k])
         THEN json_string(s, i + 6)
    ELSE NoMatch

RECURSIVE json_value(_, _), json_members(_, _), json_elements(_, _)
\* one value starting at i
json_value(s, i) ==
    IF i > Len(s) THEN NoMatch
    ELSE IF s[i] = 34 THEN json_string(s, i + 1)
    ELSE IF s[i] = 123 THEN
        LET j == json_ws(s, i + 1)
        IN  IF j <= Len(s) /\ s[j] = 125 THEN j + 1 ELSE json_members(s, j)
    ELSE IF s[i] = 91 THEN
        LET j == json_ws(s, i + 1)
        IN  IF j <= Len(s) /\ s[j] = 93 THEN j + 1 ELSE json_elements(s, j)
    ELSE IF match_at(s, i, <<110, 117, 108, 108>>) THEN i + 4
    ELSE IF match_at(s, i, <<116, 114, 117, 101>>) THEN i + 4
    ELSE IF match_at(s, i, <<102, 97, 108, 115, 101>>) THEN i + 5
    ELSE IF match_at(s, i, <<78, 97, 78>>) THEN i + 3
    ELSE IF match_at(s, i, <<73, 110, 102, 105, 110, 105, 116, 121>>) THEN i + 8
    ELSE IF match_at(s, i, <<45, 73, 110, 102, 105, 110, 105, 116, 121>>) THEN i + 9
    ELSE json_number(s, i)

\* "key" : value (, "key" : value)* }  with i at the first key
json_members(s, i) ==
    IF i > Len(s) \/ s[i] # 34 THEN NoMatch
    ELSE LET k == json_string(s, i + 1)
             c == IF k = NoMatch THEN NoMatch ELSE json_ws(s, k)
             v == IF c = NoMatch \/ c > Len(s) \/ s[c] # 58 THEN NoMatch
                  ELSE json_value(s, json_ws(s, c + 1))
             n == IF v = NoMatch THEN NoMatch ELSE json_ws(s, v)
         IN  IF n = NoMatch \/ n > Len(s) THEN NoMatch
             ELSE IF s[n] = 125 THEN n + 1
             ELSE IF s[n] = 44 THEN json_members(s, json_ws(s, n + 1))
             ELSE NoMatch

\* value (, value)* ]  with i at the first value
json_elements(s, i) ==
    LET v == json_value(s, i)
        n == IF v = NoMatch THEN NoMatch ELSE json_ws(s, v)
    IN  IF n = NoMatch \/ n > Len(s) THEN NoMatch
        ELSE IF s[n] = 93 THEN n + 1
        ELSE IF s[n] = 44 THEN json_elements(s, json_ws(s, n + 1))
        ELSE NoMatch

\* json.loads(text) returns instead of raising
json_loads_ok(s) ==
    LET v == json_value(s, json_ws(s, 1))
    IN  v # NoMatch /\ json_ws(s, v) = Len(s) + 1

(***************************************************************************)
(* The two regular expressions of detect_protocol, as re.search decides    *)
(* them.                                                                   *)
(***************************************************************************)
\* \b before index k (k in 1..Len(s)+1)
word_boundary(s, k) ==
    (k - 1 >= 1 /\ IsWord(s[k - 1])) # (k <= Len(s) /\ IsWord(s[k]))

\* [A-Za-z0-9._%+-]
IsLocalChar(c) == c \in (65..90) \cup (97..122) \cup (48..57) \cup {46, 95, 37, 43, 45}

\* [A-Za-z0-9.-]
IsDomainChar(c) == c \in (65..90) \cup (97..122) \cup (48..57) \cup {46, 45}

\* [A-Z|a-z]
IsTldChar(c) == c \in (65..90) \cup (97..122) \cup {124}

\* re.search(r'\b[A-Za-z0-9._%+-]+@[A-Za-z0-9.-]+\.[A-Z|a-z]{2,}\b', s)
search_email(s) ==
    \E at \in {i \in 1..Len(s) : s[i] = 64} :
        /\ \E a \in 1..(at - 1) :
              /\ word_boundary(s, a)
              /\ \A i \in a..(at - 1) : IsLocalChar(s[i])
        /\ \E dot \in {i \in (at + 2)..Len(s) : s[i] = 46} :
              /\ \A i \in (at + 1)..(dot - 1) : IsDomainChar(s[i])
              /\ \E d \in (dot + 2)..Len(s) :
                    /\ \A i \in (dot + 1)..d : IsTldChar(s[i])
                    /\ word_boundary(s, d + 1)

\* re.search(r'https?://[^\s]+', s)
search_url(s) ==
    \E i \in {j \in 1..Len(s) : s[j] = 104} :
        /\ match_at(s, i, <<104, 116, 116, 112>>)
        /\ \/ match_at(s, i + 4, <<58, 47, 47>>) /\ i + 7 <= Len(s) /\ ~IsSpace(s[i + 7])
           \/ match_at(s, i + 4, <<115, 58, 47, 47>>) /\ i + 8 <= Len(s) /\ ~IsSpace(s[i + 8])

\* ',' in text and '\n' in text, and every one of the first three lines that is
\* not blank holds a comma
looks_like_csv(s) ==
    /\ contains(s, 44) /\ contains(s, 10)
    /\ split_count(s) > 1
    /\ \A k \in 1..(IF split_count(s) < 3 THEN split_count(s) ELSE 3) :
          strip(split_line(s, k)) # <<>> => contains(split_line(s, k), 44)

(***************************************************************************)
(* DataProcessor.detect_protocol                                           *)
(***************************************************************************)
\* ('get ', 'post ', 'put ', 'delete ', 'head ', 'options ', 'patch ')
HttpMethods ==
    { <<103, 101, 116, 32>>, <<112, 111, 115, 116, 32>>, <<112, 117, 116, 32>>,
      <<100, 101, 108, 101, 116, 101, 32>>, <<104, 101, 97, 100, 32>>,
      <<111, 112, 116, 105, 111, 110, 115, 32>>, <<112, 97, 116, 99, 104, 32>> }

\* b'\x89PNG\r\n\x1a\n'
PngSignature == <<137, 80, 78, 71, 13, 10, 26, 10>>

\* a variant that runs the CSV check before the JSON check
detect_text_csv_first(text) ==
    LET text_lower == strip(lower(text))
    IN  IF startswith_any(text_lower, HttpMethods) THEN "http"
        ELSE IF looks_like_csv(text) THEN "csv"
        ELSE IF startswith_any(text_lower, {<<123>>, <<91>>}) /\ json_loads_ok(text) THEN "json"
        ELSE IF startswith(text_lower, <<60, 63, 120, 109, 108>>) \/ startswith(text_lower, <<60>>)
             THEN "xml"
        ELSE IF search_email(text) THEN "email"
        ELSE IF search_url(text) THEN "url"
        ELSE "text"

\* the branch taken when try_decode_text returned text
detect_text(text) ==
    LET text_lower == strip(lower(text))
    IN  IF startswith_any(text_lower, HttpMethods) THEN "http"
        ELSE IF startswith_any(text_lower, {<<123>>, <<91>>}) /\ json_loads_ok(text) THEN "json"
        ELSE IF startswith(text_lower, <<60, 63, 120, 109, 108>>) \/ startswith(text_lower, <<60>>)
             THEN "xml"
        ELSE IF search_email(text) THEN "email"
        ELSE IF search_url(text) THEN "url"
        ELSE IF looks_like_csv(text) THEN "csv"
        ELSE "text"

\* the signature table, reached when try_decode_text returned None (or "")
detect_binary(data) ==
    IF startswith(data, PngSignature) THEN "png"
    ELSE IF startswith(data, <<255, 216, 255>>) THEN "jpeg"
    ELSE IF startswith(data, <<71, 73, 70, 56>>) THEN "gif"
    ELSE IF startswith(data, <<37, 80, 68, 70>>) THEN "pdf"
    ELSE IF startswith(data, <<80, 75, 3, 4>>) THEN "zip"
    ELSE IF startswith(data, <<31, 139>>) THEN "gzip"
    ELSE IF startswith(data, <<66, 77>>) THEN "bmp"
    ELSE IF startswith(data, <<82, 73, 70, 70>>) /\ contains_sub(data, 12, <<87, 65, 86, 69>>)
         THEN "wav"
    ELSE IF \/ startswith(data, <<0, 0, 0, 24, 102, 116, 121, 112, 109, 112, 52>>)
            \/ startswith(data, <<0, 0, 0, 28, 102, 116, 121, 112>>)
         THEN "mp4"
    ELSE "binary"

detect_protocol(data) ==
    IF data = <<>> THEN "empty"
    ELSE LET text == try_decode_text(data)
         IN  IF text.ok /\ text.text # <<>> THEN detect_text(text.text)
             ELSE detect_binary(data)

(***************************************************************************)
(* DataProcessor.format_binary_data                                        *)
(***************************************************************************)
HexDigit(n) == IF n < 10 THEN 48 + n ELSE 87 + n

\* binascii.hexlify(data).decode('ascii')
hexlify(data) ==
    [i \in 1..(2 * Len(data)) |->
        IF i % 2 = 1 THEN HexDigit(data[(i + 1) \div 2] \div 16)
        ELSE HexDigit(data[i \div 2] % 16)]

\* str(n) for n >= 0
RECURSIVE decimal(_)
decimal(n) == IF n < 10 THEN <<48 + n>> ELSE decimal(n \div 10) \o <<48 + (n % 10)>>

format_binary_data(data, max_bytes) ==
    IF Len(data) <= max_bytes
    THEN <<104, 101, 120, 58, 32>> \o hexlify(data)
    ELSE <<104, 101, 120, 32, 40, 102, 105, 114, 115, 116, 32>> \o decimal(max_bytes)
         \o <<32, 98, 121, 116, 101, 115, 41, 58, 32>> \o hexlify(SubSeq(data, 1, max_bytes))
         \o <<46, 46, 46, 32, 40, 116, 111, 116, 97, 108, 58, 32>> \o decimal(Len(data))
         \o <<32, 98, 121, 116, 101, 115, 41>>

(***************************************************************************)
(* DataProcessor.process_data.  The result dict is a record; has_content   *)
(* and has_parsed_json say whether the keys "content" and "parsed_json"    *)
(* are set (the parsed value itself and the timestamp are not modelled).   *)
(***************************************************************************)
TextProtocols == {"text", "json", "xml", "http", "email", "url", "csv"}

process_data(data) ==
    IF data = <<>> THEN [type |-> "empty", size |-> 0, has_content |-> FALSE,
                         content |-> <<>>, has_parsed_json |-> FALSE]
    ELSE LET protocol == detect_protocol(data)
             text == try_decode_text(data)
         IN  IF protocol \in TextProtocols
             THEN [type |-> protocol, size |-> Len(data),
                   has_content |-> text.ok /\ text.text # <<>>,
                   content |-> IF text.ok THEN text.text ELSE <<>>,
                   has_parsed_json |-> /\ text.ok /\ text.text # <<>>
                                       /\ protocol = "json" /\ json_loads_ok(text.text)]
             ELSE [type |-> protocol, size |-> Len(data), has_content |-> TRUE,
                   content |-> format_binary_data(data, MAX_BYTES),
                   has_parsed_json |-> FALSE]

(***************************************************************************)
(* The session handler handle_tcp_client, one connection.                  *)
(*                                                                         *)
(* pc is the handler's position: a suspension point ("welcome", "read",    *)
(* "ack", "notice", "wait_closed" are the awaits of lines 161, 170, 195,   *)
(* 215 and 242), the entry of the finally block ("finally"), the point     *)
(* before writer.close() ("closing"), or an end: "done" (returned) or      *)
(* "raised" (an exception left handle_tcp_client).                         *)
(*                                                                         *)
(* data_buffer is the length of the bytes object data_buffer.  A line      *)
(* written to the peer is recorded by its kind and, for an acknowledgment, *)
(* by the three values interpolated into it.                               *)
(***************************************************************************)
VARIABLES
    pc,                \* position of the handler
    locals_bound,      \* lines 164-165 have run: data_buffer and message_count exist
    message_count,     \* the local message_count
    data_buffer,       \* len(data_buffer)
    data,              \* the chunk returned by the last non-empty read
    ack,               \* the last acknowledgment line written
    last_line,         \* kind of the last line written to the peer
    out_welcome,       \* welcome lines written
    out_acks,          \* acknowledgment lines written
    out_notices,       \* timeout notices written
    logged_data,       \* "TCP Data" log entries
    buffer_summaries,  \* "TCP Buffer Summary" log entries
    buffer_summary,    \* the last of them
    session_summaries, \* "TCP Session Summary" log entries
    session_summary,   \* the last of them
    close_calls,       \* calls of writer.close()
    exit_cause,        \* what ended the read loop
    chunks_read,       \* non-empty chunks the peer delivered
    short_reads,       \* of these, the ones shorter than READ_SIZE
    bytes_read,        \* bytes the peer delivered in them
    bytes_summarised,  \* bytes reported by the "TCP Buffer Summary" entries
    parked,            \* the locals of the other session, suspended at an await
    running,           \* which session the event loop is running
    listener,          \* the server of start_tcp_server
    processed_memo,    \* process_data of each chunk of the model, computed once
    payload,           \* classifier run: the input
    classified,        \* classifier run: process_data has run
    result             \* classifier run: its result

vars == <<pc, locals_bound, message_count, data_buffer, data, ack, last_line,
          out_welcome, out_acks, out_notices, logged_data, buffer_summaries,
          buffer_summary, session_summaries, session_summary, close_calls,
          exit_cause, chunks_read, short_reads, bytes_read, bytes_summarised,
          parked, running, listener, processed_memo, payload, classified, result>>

sessionVars == <<pc, locals_bound, message_count, data_buffer, data, ack, last_line,
          out_welcome, out_acks, out_notices, logged_data, buffer_summaries,
          buffer_summary, session_summaries, session_summary, close_calls,
          exit_cause, chunks_read, short_reads, bytes_read,
                   bytes_summarised>>

classifyVars == <<payload, classified, result>>

concurrencyVars == <<parked, running, listener>>

\* The chunks a read returns in the model: two short ones and a full read.
ChunkBytes ==
    [ json |-> <<123, 34, 97, 34, 58, 49, 125>>,            \* {"a":1}
      http |-> <<71, 69, 84, 32, 47, 120, 32, 72, 84, 84, 80, 47, 49, 46, 49, 13, 10>>,
                                                             \* GET /x HTTP/1.1\r\n
      full |-> [i \in 1..READ_SIZE |-> 97] ]                 \* READ_SIZE times "a"

ChunkNames == DOMAIN ChunkBytes

IsShort(c) == Len(ChunkBytes[c]) < READ_SIZE

\* what the handler reads of processed_data after logging it: everything but
\* the content string
without_content(processed) ==
    LET r == processed
    IN  [type |-> r.type, size |-> r.size, has_content |-> r.has_content,
         has_parsed_json |-> r.has_parsed_json]

\* processed_data = DataProcessor.process_data(data), per chunk of the model.
\* process_data is pure: the table is computed in the initial state and kept in
\* processed_memo, so that a step looks its chunk up instead of classifying
\* READ_SIZE bytes again.
Processed ==
    [c \in ChunkNames |-> without_content(process_data(ChunkBytes[c]))]

\* the other session does not exist
NoSession == [pc |-> "absent"]

\* the cap on the messages of one session: the full one when the session is
\* alone, the small one when two sessions interleave
Concurrent == listener.pending > 0 \/ parked.pc # "absent"

MessageBound == IF Concurrent THEN MaxConcurrentMessages ELSE MaxMessages

\* the same for the idle timeouts of one session
TimeoutBound == IF Concurrent THEN MaxConcurrentTimeouts ELSE MaxTimeouts

NoAck == [type |-> "none", size |-> 0, n |-> 0]

NoSummary == [total_size |-> 0, message_count |-> 0]

\* data_buffer += data
append_chunk(buf, chunk) == buf + Len(chunk)

\* message_count += 1
next_message(n) == n + 1

\* a variant that numbers the line with the count before the increment
ack_msg_stale_count(processed, n) ==
    [type |-> processed.type, size |-> processed.size, n |-> n - 1]

\* ack_msg = f"... Logged {type} data ({size} bytes) - Message #{message_count}\n"
ack_msg(processed, n) == [type |-> processed.type, size |-> processed.size, n |-> n]

\* a variant that compares with >=, resetting a buffer that only reaches the cap
buffer_reaches_cap(buf) == buf >= BUFFER_CAP

\* a variant that tests against twice the cap
buffer_over_double_cap(buf) == buf > 2 * BUFFER_CAP

\* a variant that lets the buffer grow one more read before the reset
buffer_over_cap_and_read(buf) == buf > BUFFER_CAP + READ_SIZE

\* if len(data_buffer) > 1024 * 1024
buffer_over_cap(buf) == buf > BUFFER_CAP

\* a variant that needs two messages
has_more_than_one(n) == n > 1

\* a variant that also accepts a session without messages
has_messages_or_none(n) == n >= 0

\* if message_count > 0
has_messages(n) == n > 0

SessionInit ==
    /\ pc = "start"
    /\ locals_bound = FALSE
    /\ message_count = 0
    /\ data_buffer = 0
    /\ data = "none"
    /\ ack = NoAck
    /\ last_line = "none"
    /\ out_welcome = 0
    /\ out_acks = 0
    /\ out_notices = 0
    /\ logged_data = 0
    /\ buffer_summaries = 0
    /\ buffer_summary = NoSummary
    /\ session_summaries = 0
    /\ session_summary = NoSummary
    /\ close_calls = 0
    /\ exit_cause = "none"
    /\ chunks_read = 0
    /\ short_reads = 0
    /\ bytes_read = 0
    /\ bytes_summarised = 0

ClassifyIdle ==
    /\ payload = <<>>
    /\ classified = FALSE
    /\ result = process_data(<<>>)

\* one connection, already accepted, and no other to come
SingleSession ==
    /\ parked = NoSession
    /\ running = 1
    /\ listener = [serving |-> TRUE, pending |-> 0]

Init == SessionInit /\ SingleSession /\ processed_memo = Processed /\ ClassifyIdle

\* a variant that enters the read loop without writing the welcome line
ConnectSilent ==
    /\ pc = "start"
    /\ locals_bound' = TRUE
    /\ data_buffer' = 0
    /\ message_count' = 0
    /\ pc' = "read"
    /\ UNCHANGED <<classifyVars, processed_memo, concurrencyVars,
                   data, ack, last_line, out_welcome, out_acks, out_notices,
                   logged_data, buffer_summaries, buffer_summary, session_summaries,
                   session_summary, close_calls, exit_cause, chunks_read,
                   short_reads, bytes_read, bytes_summarised>>

\* lines 154-160: the connection is logged and the welcome line written
Connect ==
    /\ pc = "start"
    /\ out_welcome' = out_welcome + 1
    /\ last_line' = "welcome"
    /\ pc' = "welcome"
    /\ UNCHANGED <<classifyVars, processed_memo, concurrencyVars,
                   locals_bound, message_count, data_buffer, data, ack, out_acks,
                   out_notices, logged_data, buffer_summaries, buffer_summary,
                   session_summaries, session_summary, close_calls, exit_cause, chunks_read, short_reads, bytes_read,
                   bytes_summarised>>

\* leaving the try body for the finally block
Unwind(cause) ==
    /\ exit_cause' = cause
    /\ pc' = "finally"
    /\ UNCHANGED <<classifyVars, processed_memo, concurrencyVars,
                   locals_bound, message_count, data_buffer, data, ack, last_line,
                   out_welcome, out_acks, out_notices, logged_data, buffer_summaries,
                   buffer_summary, session_summaries, session_summary, close_calls,
                   chunks_read, short_reads, bytes_read,
                   bytes_summarised>>

\* line 161 returns; lines 164-165 bind the two locals
WelcomeDrained ==
    /\ pc = "welcome"
    /\ locals_bound' = TRUE
    /\ data_buffer' = 0
    /\ message_count' = 0
    /\ pc' = "read"
    /\ UNCHANGED <<classifyVars, processed_memo, concurrencyVars,
                   data, ack, last_line, out_welcome, out_acks, out_notices,
                   logged_data, buffer_summaries, buffer_summary, session_summaries,
                   session_summary, close_calls, exit_cause, chunks_read,
                   short_reads, bytes_read,
                   bytes_summarised>>

\* line 161 raises: caught by "except Exception as e" (line 224)
WelcomeDrainFailed == pc = "welcome" /\ Unwind("write_error")

\* line 161 is cancelled: caught by "except asyncio.CancelledError" (line 222)
WelcomeDrainCancelled == pc = "welcome" /\ Unwind("cancelled")

\* a variant in which logging a chunk classified "json" raises, which the
\* "except Exception as read_error" of line 218 turns into a break
ReadChunkJsonRaises(c) ==
    /\ pc = "read"
    /\ message_count < MessageBound
    /\ IsShort(c) => short_reads < MaxShort
    /\ data' = c
    /\ chunks_read' = chunks_read + 1
    /\ short_reads' = IF IsShort(c) THEN short_reads + 1 ELSE short_reads
    /\ bytes_read' = bytes_read + Len(ChunkBytes[c])
    /\ data_buffer' = append_chunk(data_buffer, ChunkBytes[c])
    /\ message_count' = next_message(message_count)
    /\ IF processed_memo[c].type = "json"
       THEN /\ exit_cause' = "read_error"
            /\ pc' = "finally"
            /\ UNCHANGED <<logged_data, ack, out_acks, last_line>>
       ELSE /\ logged_data' = logged_data + 1
            /\ ack' = ack_msg(processed_memo[c], message_count')
            /\ out_acks' = out_acks + 1
            /\ last_line' = "ack"
            /\ pc' = "ack"
            /\ UNCHANGED exit_cause
    /\ UNCHANGED <<classifyVars, processed_memo, concurrencyVars,
                   locals_bound, out_welcome, out_notices, buffer_summaries,
                   buffer_summary, session_summaries, session_summary, close_calls,
                   bytes_summarised>>

\* lines 170-194: a non-empty read, up to the write of the acknowledgment
ReadChunk(c) ==
    /\ pc = "read"
    /\ message_count < MessageBound
    /\ IsShort(c) => short_reads < MaxShort
    /\ data' = c
    /\ chunks_read' = chunks_read + 1
    /\ short_reads' = IF IsShort(c) THEN short_reads + 1 ELSE short_reads
    /\ bytes_read' = bytes_read + Len(ChunkBytes[c])
    /\ data_buffer' = append_chunk(data_buffer, ChunkBytes[c])
    /\ message_count' = next_message(message_count)
    /\ logged_data' = logged_data + 1
    /\ ack' = ack_msg(processed_memo[c], message_count')
    /\ out_acks' = out_acks + 1
    /\ last_line' = "ack"
    /\ pc' = "ack"
    /\ UNCHANGED <<classifyVars, processed_memo, concurrencyVars,
                   locals_bound, out_welcome, out_notices, buffer_summaries,
                   buffer_summary, session_summaries, session_summary, close_calls,
                   exit_cause, bytes_summarised>>

\* lines 172-174: a zero-length read, the peer closed
ReadEmpty == pc = "read" /\ Unwind("peer_closed")

\* line 170 raises something other than TimeoutError: "except Exception as
\* read_error" (line 218) breaks out of the loop
ReadFailed == pc = "read" /\ Unwind("read_error")

\* line 170 is cancelled
ReadCancelled == pc = "read" /\ Unwind("cancelled")

\* a variant in which the timeout writes the notice and leaves the loop
ReadTimeoutCloses ==
    /\ pc = "read"
    /\ out_notices < TimeoutBound
    /\ out_notices' = out_notices + 1
    /\ last_line' = "notice"
    /\ pc' = "finally"
    /\ UNCHANGED <<classifyVars, processed_memo, concurrencyVars,
                   locals_bound, message_count, data_buffer, data, ack, out_welcome,
                   out_acks, logged_data, buffer_summaries, buffer_summary,
                   session_summaries, session_summary, close_calls,
                   exit_cause, chunks_read, short_reads, bytes_read,
                   bytes_summarised>>

\* a variant in which the timeout counts as a message
ReadTimeoutCountsMessage ==
    /\ pc = "read"
    /\ out_notices < TimeoutBound
    /\ out_notices' = out_notices + 1
    /\ message_count' = message_count + 1
    /\ last_line' = "notice"
    /\ pc' = "notice"
    /\ UNCHANGED <<classifyVars, processed_memo, concurrencyVars,
                   locals_bound, data_buffer, data, ack, out_welcome,
                   out_acks, logged_data, buffer_summaries, buffer_summary,
                   session_summaries, session_summary, close_calls, exit_cause,
                   chunks_read, short_reads, bytes_read, bytes_summarised>>

\* lines 211-214: no data in 30 seconds, the notice is written
ReadTimeout ==
    /\ pc = "read"
    /\ out_notices < TimeoutBound
    /\ out_notices' = out_notices + 1
    /\ last_line' = "notice"
    /\ pc' = "notice"
    /\ UNCHANGED <<classifyVars, processed_memo, concurrencyVars,
                   locals_bound, message_count, data_buffer, data, ack, out_welcome,
                   out_acks, logged_data, buffer_summaries, buffer_summary,
                   session_summaries, session_summary, close_calls, exit_cause, chunks_read, short_reads, bytes_read,
                   bytes_summarised>>

\* lines 215-216: the notice is flushed, continue
NoticeDrained ==
    /\ pc = "notice"
    /\ pc' = "read"
    /\ UNCHANGED <<classifyVars, processed_memo, concurrencyVars,
                   locals_bound, message_count, data_buffer, data, ack, last_line,
                   out_welcome, out_acks, out_notices, logged_data, buffer_summaries,
                   buffer_summary, session_summaries, session_summary, close_calls,
                   exit_cause, chunks_read, short_reads, bytes_read,
                   bytes_summarised>>

\* line 215 raises inside the except clause: caught by line 224
NoticeDrainFailed == pc = "notice" /\ Unwind("write_error")

\* line 215 is cancelled: caught by line 222
NoticeDrainCancelled == pc = "notice" /\ Unwind("cancelled")

\* a variant in which the buffer reset also resets the message counter
AckDrainedResetsCount ==
    /\ pc = "ack"
    /\ IF buffer_over_cap(data_buffer)
       THEN /\ buffer_summaries' = buffer_summaries + 1
            /\ buffer_summary' = [total_size |-> data_buffer, message_count |-> message_count]
            /\ bytes_summarised' = bytes_summarised + data_buffer
            /\ data_buffer' = 0
            /\ message_count' = 0
       ELSE UNCHANGED <<buffer_summaries, buffer_summary, bytes_summarised, data_buffer,
                        message_count>>
    /\ pc' = "read"
    /\ UNCHANGED <<classifyVars, processed_memo, concurrencyVars,
                   locals_bound, data, ack, last_line, out_welcome,
                   out_acks, out_notices, logged_data, session_summaries,
                   session_summary, close_calls, exit_cause, chunks_read,
                   short_reads, bytes_read>>

\* lines 195-209: the acknowledgment is flushed, then the cap check
AckDrained ==
    /\ pc = "ack"
    /\ IF buffer_over_cap(data_buffer)
       THEN /\ buffer_summaries' = buffer_summaries + 1
            /\ buffer_summary' = [total_size |-> data_buffer, message_count |-> message_count]
            /\ bytes_summarised' = bytes_summarised + data_buffer
            /\ data_buffer' = 0
       ELSE UNCHANGED <<buffer_summaries, buffer_summary, bytes_summarised, data_buffer>>
    /\ pc' = "read"
    /\ UNCHANGED <<classifyVars, processed_memo, concurrencyVars,
                   locals_bound, message_count, data, ack, last_line, out_welcome,
                   out_acks, out_notices, logged_data, session_summaries,
                   session_summary, close_calls, exit_cause, chunks_read,
                   short_reads, bytes_read>>

\* line 195 raises: "except Exception as read_error" (line 218) breaks
AckDrainFailed == pc = "ack" /\ Unwind("write_error")

\* line 195 is cancelled
AckDrainCancelled == pc = "ack" /\ Unwind("cancelled")

\* a variant whose summary counts the messages since the last buffer reset
FinallyCountsSinceReset ==
    /\ pc = "finally"
    /\ IF ~locals_bound
       THEN /\ pc' = "raised"
            /\ UNCHANGED <<session_summaries, session_summary>>
       ELSE /\ pc' = "closing"
            /\ IF has_messages(message_count)
               THEN /\ session_summaries' = session_summaries + 1
                    /\ session_summary' = [total_size |-> data_buffer,
                                           message_count |->
                                               message_count - buffer_summary.message_count]
               ELSE UNCHANGED <<session_summaries, session_summary>>
    /\ UNCHANGED <<classifyVars, processed_memo, concurrencyVars,
                   locals_bound, message_count, data_buffer, data, ack, last_line,
                   out_welcome, out_acks, out_notices, logged_data, buffer_summaries,
                   buffer_summary, close_calls, exit_cause, chunks_read,
                   short_reads, bytes_read,
                   bytes_summarised>>

\* lines 226-239: the finally block up to writer.close().  Reading
\* message_count before line 165 ran raises UnboundLocalError, which leaves
\* the function.
Finally ==
    /\ pc = "finally"
    /\ IF ~locals_bound
       THEN /\ pc' = "raised"
            /\ UNCHANGED <<session_summaries, session_summary>>
       ELSE /\ pc' = "closing"
            /\ IF has_messages(message_count)
               THEN /\ session_summaries' = session_summaries + 1
                    /\ session_summary' = [total_size |-> data_buffer,
                                           message_count |-> message_count]
               ELSE UNCHANGED <<session_summaries, session_summary>>
    /\ UNCHANGED <<classifyVars, processed_memo, concurrencyVars,
                   locals_bound, message_count, data_buffer, data, ack, last_line,
                   out_welcome, out_acks, out_notices, logged_data, buffer_summaries,
                   buffer_summary, close_calls, exit_cause, chunks_read,
                   short_reads, bytes_read,
                   bytes_summarised>>

\* line 241: writer.close()
CloseWriter ==
    /\ pc = "closing"
    /\ close_calls' = close_calls + 1
    /\ pc' = "wait_closed"
    /\ UNCHANGED <<classifyVars, processed_memo, concurrencyVars,
                   locals_bound, message_count, data_buffer, data, ack, last_line,
                   out_welcome, out_acks, out_notices, logged_data, buffer_summaries,
                   buffer_summary, session_summaries, session_summary, exit_cause, chunks_read, short_reads, bytes_read,
                   bytes_summarised>>

\* line 242: wait_closed() returns, or raises or is cancelled and the bare
\* except of line 243 swallows it
WaitClosed ==
    /\ pc = "wait_closed"
    /\ pc' = "done"
    /\ UNCHANGED <<classifyVars, processed_memo, concurrencyVars,
                   locals_bound, message_count, data_buffer, data, ack, last_line,
                   out_welcome, out_acks, out_notices, logged_data, buffer_summaries,
                   buffer_summary, session_summaries, session_summary, close_calls,
                   exit_cause, chunks_read, short_reads, bytes_read,
                   bytes_summarised>>

Next ==
    \/ Connect
    \/ WelcomeDrained
    \/ WelcomeDrainFailed
    \/ WelcomeDrainCancelled
    \/ \E c \in ChunkNames : ReadChunk(c)
    \/ ReadEmpty
    \/ ReadFailed
    \/ ReadCancelled
    \/ ReadTimeout
    \/ NoticeDrained
    \/ NoticeDrainFailed
    \/ NoticeDrainCancelled
    \/ AckDrained
    \/ AckDrainFailed
    \/ AckDrainCancelled
    \/ Finally
    \/ CloseWriter
    \/ WaitClosed

Spec == Init /\ [][Next]_vars

(***************************************************************************)
(* Two connections.  asyncio.start_server runs one handle_tcp_client task  *)
(* per connection on one event loop: one task runs at a time, and the loop *)
(* can resume another one only while the running one is suspended at an    *)
(* await.  The variables of the session above are the locals of the task   *)
(* that is running; parked holds the locals of the other one.              *)
(***************************************************************************)
Sessions == {1, 2}

\* the locals and the history of the running task
Current ==
    [ pc |-> pc,
      locals_bound |-> locals_bound,
      message_count |-> message_count,
      data_buffer |-> data_buffer,
      data |-> data,
      ack |-> ack,
      last_line |-> last_line,
      out_welcome |-> out_welcome,
      out_acks |-> out_acks,
      out_notices |-> out_notices,
      logged_data |-> logged_data,
      buffer_summaries |-> buffer_summaries,
      buffer_summary |-> buffer_summary,
      session_summaries |-> session_summaries,
      session_summary |-> session_summary,
      close_calls |-> close_calls,
      exit_cause |-> exit_cause,
      chunks_read |-> chunks_read,
      short_reads |-> short_reads,
      bytes_read |-> bytes_read,
      bytes_summarised |-> bytes_summarised ]

\* the state of a task that start_server has created and that has not run yet
FreshSession ==
    [ pc |-> "start", locals_bound |-> FALSE, message_count |-> 0, data_buffer |-> 0,
      data |-> "none", ack |-> NoAck, last_line |-> "none", out_welcome |-> 0,
      out_acks |-> 0, out_notices |-> 0, logged_data |-> 0, buffer_summaries |-> 0,
      buffer_summary |-> NoSummary, session_summaries |-> 0,
      session_summary |-> NoSummary, close_calls |-> 0, exit_cause |-> "none",
      chunks_read |-> 0, short_reads |-> 0, bytes_read |-> 0, bytes_summarised |-> 0 ]

\* a task can be resumed, and another one started, only while the running one
\* is at an await (lines 161, 170, 195, 215, 242), has not started or has ended;
\* a task that has ended is not resumed
Suspended == pc \in {"start", "welcome", "read", "ack", "notice", "wait_closed", "done", "raised"}

SessionState(i) == IF running = i THEN Current ELSE parked

InitConcurrent ==
    /\ SessionInit
    /\ parked = NoSession
    /\ running = 1
    /\ listener = [serving |-> TRUE, pending |-> 1]
    /\ processed_memo = Processed
    /\ ClassifyIdle

\* lines 250-254: the server accepts the second connection and creates its task
Accept ==
    /\ Suspended
    /\ listener.serving
    /\ listener.pending > 0
    /\ parked = NoSession
    /\ parked' = FreshSession
    /\ listener' = [listener EXCEPT !.pending = listener.pending - 1]
    /\ UNCHANGED <<sessionVars, running, classifyVars, processed_memo>>

\* a variant in which message_count is one counter shared by the two tasks
SwitchSharingCount ==
    /\ Suspended
    /\ parked # NoSession
    /\ parked.pc \notin {"done", "raised"}
    /\ parked' = Current
    /\ running' = 3 - running
    /\ /\ pc' = parked.pc
    /\ locals_bound' = parked.locals_bound
    /\ data_buffer' = parked.data_buffer
    /\ data' = parked.data
    /\ ack' = parked.ack
    /\ last_line' = parked.last_line
    /\ out_welcome' = parked.out_welcome
    /\ out_acks' = parked.out_acks
    /\ out_notices' = parked.out_notices
    /\ logged_data' = parked.logged_data
    /\ buffer_summaries' = parked.buffer_summaries
    /\ buffer_summary' = parked.buffer_summary
    /\ session_summaries' = parked.session_summaries
    /\ session_summary' = parked.session_summary
    /\ close_calls' = parked.close_calls
    /\ exit_cause' = parked.exit_cause
    /\ chunks_read' = parked.chunks_read
    /\ short_reads' = parked.short_reads
    /\ bytes_read' = parked.bytes_read
    /\ bytes_summarised' = parked.bytes_summarised
    /\ message_count' = message_count
    /\ UNCHANGED <<listener, classifyVars, processed_memo>>

\* the event loop suspends the running task and resumes the other one
Switch ==
    /\ Suspended
    /\ parked # NoSession
    /\ parked.pc \notin {"done", "raised"}
    /\ parked' = Current
    /\ running' = 3 - running
    /\ /\ pc' = parked.pc
    /\ locals_bound' = parked.locals_bound
    /\ message_count' = parked.message_count
    /\ data_buffer' = parked.data_buffer
    /\ data' = parked.data
    /\ ack' = parked.ack
    /\ last_line' = parked.last_line
    /\ out_welcome' = parked.out_welcome
    /\ out_acks' = parked.out_acks
    /\ out_notices' = parked.out_notices
    /\ logged_data' = parked.logged_data
    /\ buffer_summaries' = parked.buffer_summaries
    /\ buffer_summary' = parked.buffer_summary
    /\ session_summaries' = parked.session_summaries
    /\ session_summary' = parked.session_summary
    /\ close_calls' = parked.close_calls
    /\ exit_cause' = parked.exit_cause
    /\ chunks_read' = parked.chunks_read
    /\ short_reads' = parked.short_reads
    /\ bytes_read' = parked.bytes_read
    /\ bytes_summarised' = parked.bytes_summarised
    /\ UNCHANGED <<listener, classifyVars, processed_memo>>

NextConcurrent ==
    \/ Next
    \/ Accept
    \/ Switch

SpecConcurrent == InitConcurrent /\ [][NextConcurrent]_vars

(***************************************************************************)
(* The classifier alone: process_data applied to one payload drawn from a  *)
(* bounded set of byte strings.                                            *)
(***************************************************************************)
\* the bytes that follow a signature in the enumerated inputs:
\* NUL, "\n", ",", "@", "a", 0xff, "{"
TailBytes == {0, 10, 44, 64, 97, 255, 123}

Tails == UNION {[1..n -> TailBytes] : n \in 0..MaxTail}

\* the PNG signature followed by 60 bytes 0..59: longer than MAX_BYTES
LongPng == PngSignature \o [i \in 1..60 |-> i - 1]

\* texts that several of the checks of detect_protocol match
TextInputs ==
    { <<91, 49, 44, 10, 50, 44, 51, 93>>,                \* [1,\n2,3]
      <<32, 123, 34, 97, 34, 58, 49, 125>>,              \* " {"a":1}"
      <<34, 97, 44, 98, 34, 10>>,                        \* "a,b"\n
      <<123, 97, 44, 10, 98, 44>>,                       \* {a,\nb,
      <<123, 120>>,                                      \* {x
      <<12, 123, 125>>,                                  \* \f{}
      <<91, 97, 64, 98, 46, 99, 100>>,                   \* [a@b.cd
      <<91, 104, 116, 116, 112, 58, 47, 47, 120>>,       \* [http://x
      <<60, 97, 62>>,                                    \* <a>
      <<60, 97, 64, 98, 46, 99, 100, 62>>,               \* <a@b.cd>
      <<97, 64, 98, 46, 99, 100, 44, 10, 120>>,          \* a@b.cd,\nx
      <<104, 116, 116, 112, 58, 47, 47, 120, 44, 10, 121, 44>>,  \* http://x,\ny,
      <<97, 44, 98, 10, 99, 44, 100>>,                   \* a,b\nc,d
      <<97, 44, 98, 10, 99>>,                            \* a,b\nc
      <<80, 79, 83, 84, 32, 91, 49, 93>>,                \* POST [1]
      <<104, 105>> }                                     \* hi

\* byte strings that are not text in UTF-8: signatures of the table of
\* detect_protocol, and bytes that cp1252 leaves undefined
BinaryInputs ==
    { <<255, 216, 255, 224>>,                            \* JPEG
      <<71, 73, 70, 56, 57, 97, 255>>,                   \* GIF89a
      <<31, 139, 8>>,                                    \* gzip
      <<80, 75, 3, 4, 129>>,                             \* zip
      <<0, 0, 0, 24, 102, 116, 121, 112, 109, 112, 52, 144>>,  \* mp4
      <<129>>, <<141, 143, 144, 157>>, <<128, 255>> }

ClassifierInputs ==
    {PngSignature \o t : t \in Tails}
    \cup { LongPng,
           PngSignature \o <<97, 64, 98, 46, 99, 100>>,               \* ...a@b.cd
           PngSignature \o <<104, 116, 116, 112, 58, 47, 47, 120>>,   \* ...http://x
           PngSignature \o <<255, 216, 255>>,                         \* ...JPEG signature
           ChunkBytes.json, ChunkBytes.http }
    \cup Tails
    \cup TextInputs
    \cup BinaryInputs

\* no session runs here: its variables keep their initial values and the
\* table of its chunks stays empty
InitClassify ==
    /\ SessionInit
    /\ SingleSession
    /\ processed_memo = <<>>
    /\ payload \in ClassifierInputs
    /\ classified = FALSE
    /\ result = process_data(<<>>)

\* result = DataProcessor.process_data(payload)
Classify ==
    /\ ~classified
    /\ result' = process_data(payload)
    /\ classified' = TRUE
    /\ UNCHANGED <<sessionVars, concurrencyVars, processed_memo, payload>>

NextClassify == Classify

SpecClassify == InitClassify /\ [][NextClassify]_vars

(***************************************************************************)
(* Properties.                                                             *)
(***************************************************************************)
\* what each chunk of the model is: its format and its size in bytes
Expected ==
    [ json |-> [type |-> "json", size |-> 7],
      http |-> [type |-> "http", size |-> 17],
      full |-> [type |-> "text", size |-> 4096] ]

InLoop == pc \in {"read", "ack", "notice"}

Ended == pc \in {"done", "raised"}

\* C1: message_count is the number of non-empty chunks read so far; a
\* zero-length read, an idle timeout and a buffer reset leave it alone.
C1_CountIsChunksRead == message_count = chunks_read

C1_Witness ==
    /\ chunks_read > 1 /\ message_count = chunks_read
    /\ buffer_summaries > 0 /\ out_notices > 0
    /\ exit_cause = "peer_closed"

\* C2 as stated: the rolling buffer never holds more than the cap, in any state.
C2_NeverOverCap == data_buffer <= BUFFER_CAP

\* C2 amended: the buffer is within the cap whenever the handler is about to
\* read, exceeds it by at most one read in any state, and is over the cap only
\* between the append and the cap check or after that step's acknowledgment
\* failed to flush (write error or cancellation).
C2_OverCapByOneReadAtMost ==
    /\ data_buffer <= BUFFER_CAP + READ_SIZE
    /\ pc \in {"read", "notice"} => data_buffer <= BUFFER_CAP
    /\ data_buffer > BUFFER_CAP =>
          pc = "ack" \/ (~InLoop /\ exit_cause \in {"write_error", "cancelled"})

C2_Witness ==
    pc = "done" /\ exit_cause = "write_error" /\ data_buffer > BUFFER_CAP

\* C3: a session that processed a chunk logs the Session Summary exactly once,
\* after the read loop and before writer.close(), however it ends.
C3_SummaryOnceBeforeClose ==
    /\ session_summaries <= 1
    /\ pc \in {"start", "welcome", "read", "ack", "notice", "finally"} => session_summaries = 0
    /\ (chunks_read > 0 /\ pc \in {"closing", "wait_closed", "done"}) => session_summaries = 1
    /\ pc = "closing" => close_calls = 0
    /\ close_calls > 0 => pc \in {"wait_closed", "done"}
    /\ chunks_read > 0 => pc # "raised"

C3_Witness ==
    /\ pc = "done" /\ chunks_read = 1 /\ exit_cause = "cancelled"
    /\ session_summaries = 1 /\ close_calls = 1

\* C4: whatever ends an accepted session (peer close, read error, failed write
\* of an acknowledgment, a timeout notice or the welcome line), no exception
\* leaves handle_tcp_client and writer.close() has been attempted at the end.
C4_EveryEndCloses ==
    (Ended /\ exit_cause \in {"peer_closed", "read_error", "write_error"})
        => (pc = "done" /\ close_calls = 1)

\* C5: a cancellation at any suspension point unwinds through the finally
\* block, attempts writer.close() and lets no exception out.
C5_CancelUnwinds ==
    (Ended /\ exit_cause = "cancelled") => (pc = "done" /\ close_calls = 1)

\* C6: an idle timeout keeps the session in the read loop: the timeout step
\* changes neither counter nor buffer, a flushed notice returns to the read,
\* and a non-empty read does the same whatever number of timeouts came before.
C6_TimeoutKeepsSession ==
    [][ /\ (pc = "read" /\ out_notices' = out_notices + 1) =>
              /\ pc' = "notice" /\ exit_cause' = "none"
              /\ message_count' = message_count /\ data_buffer' = data_buffer
        /\ (pc = "notice" /\ exit_cause' = "none") =>
              /\ pc' = "read"
              /\ message_count' = message_count /\ data_buffer' = data_buffer
        /\ (pc = "read" /\ chunks_read' = chunks_read + 1) =>
              /\ pc' = "ack"
              /\ message_count' = message_count + 1
              /\ data_buffer' = data_buffer + Expected[data'].size
              /\ out_acks' = out_acks + 1
              /\ ack' = [type |-> Expected[data'].type, size |-> Expected[data'].size,
                         n |-> message_count + 1]
      ]_vars

C6_Witness ==
    pc = "ack" /\ chunks_read = 1 /\ out_notices > 1 /\ ack.n = 1 /\ data = "http"

\* C7: a payload that starts with the PNG signature is classified "png" and
\* its content is the hex dump of at most its first MAX_BYTES bytes.
C7_PngIsPng ==
    (classified /\ startswith(payload, PngSignature)) =>
        /\ result.type = "png"
        /\ result.content = format_binary_data(payload, MAX_BYTES)

C9_SummaryWheneverOverCap ==
    [][ (pc = "ack" /\ data_buffer > BUFFER_CAP) =>
            (buffer_summaries' = buffer_summaries + 1 /\ data_buffer' = 0) ]_vars

\* C9 amended: when the buffer is over the cap and the acknowledgment of that
\* step is flushed, a Buffer Summary of the whole buffer is logged in that step
\* and the buffer is empty before the next read; a Buffer Summary is logged
\* in no other step.
C9_SummaryWhenAckFlushed ==
    [][ /\ (pc = "ack" /\ data_buffer > BUFFER_CAP /\ pc' = "read") =>
              /\ buffer_summaries' = buffer_summaries + 1
              /\ buffer_summary' = [total_size |-> data_buffer, message_count |-> message_count]
              /\ data_buffer' = 0
        /\ buffer_summaries' # buffer_summaries =>
              (pc = "ack" /\ data_buffer > BUFFER_CAP /\ pc' = "read")
      ]_vars

C9_Witness ==
    /\ pc = "read" /\ buffer_summaries = 1 /\ data_buffer = 0
    /\ buffer_summary.total_size > BUFFER_CAP

\* C10: when the first read of a fresh connection is zero-length, no Session
\* Summary is logged and the handler goes from the loop to the finally block
\* and on to writer.close().
C10_EmptyFirstRead ==
    (exit_cause = "peer_closed" /\ chunks_read = 0) =>
        /\ session_summaries = 0
        /\ pc \in {"finally", "closing", "wait_closed", "done"}
        /\ pc \in {"wait_closed", "done"} => close_calls = 1
        /\ out_acks = 0 /\ logged_data = 0

C10_Witness ==
    /\ exit_cause = "peer_closed" /\ chunks_read = 0 /\ pc = "done"
    /\ session_summaries = 0 /\ close_calls = 1

\* C11: with two sessions interleaved in any way, the counter and the buffer of
\* each session are those of its own chunks; a step of the running session,
\* and so a failure or a cancellation that ends it, changes neither the other
\* session nor the listener, and a task switch changes the state of no session.
C11_SessionsIsolated ==
    /\ [](\A i \in Sessions :
            SessionState(i) # NoSession =>
                /\ SessionState(i).message_count = SessionState(i).chunks_read
                /\ SessionState(i).data_buffer
                       = SessionState(i).bytes_read - SessionState(i).bytes_summarised)
    /\ [][ /\ running' = running =>
                 /\ sessionVars' # sessionVars => (parked' = parked /\ listener' = listener)
                 /\ parked' # parked =>
                       (parked = NoSession /\ parked' = FreshSession /\ listener.pending > 0)
           /\ (running' = running
                 /\ (exit_cause' # exit_cause \/ (pc # "raised" /\ pc' = "raised"))) =>
                 (parked' = parked /\ listener' = listener)
           /\ running' # running =>
                 /\ \A i \in Sessions : SessionState(i)' = SessionState(i)
                 /\ listener' = listener
           /\ listener'.serving
         ]_vars

C11_Witness ==
    /\ running = 2 /\ pc = "read" /\ message_count = 1 /\ data_buffer = 7
    /\ out_notices = 1
    /\ parked.pc = "done" /\ parked.exit_cause = "cancelled"
    /\ parked.message_count = 1 /\ parked.data_buffer = READ_SIZE
    /\ listener.pending = 0

\* the checks of the text branch in their order, for the text of the payload
TextTags == <<"http", "json", "xml", "email", "url", "csv", "text">>

PayloadText == try_decode_text(payload).text

Braced == startswith_any(strip(lower(PayloadText)), {<<123>>, <<91>>})

TextChecks ==
    << startswith_any(strip(lower(PayloadText)), HttpMethods),
       Braced /\ json_loads_ok(PayloadText),
       startswith(strip(lower(PayloadText)), <<60>>),
       search_email(PayloadText),
       search_url(PayloadText),
       looks_like_csv(PayloadText),
       TRUE >>

FirstCheck == CHOOSE k \in 1..7 : TextChecks[k] /\ \A j \in 1..(k - 1) : ~TextChecks[j]

\* C12 as stated: the tag is that of the first matching check, every payload
\* that is valid JSON and holds commas and newlines is "json", and a payload
\* that starts with "{" or "[" and does not parse is not "json".
C12_ValidJsonIsJson ==
    (classified /\ payload # <<>>) =>
        /\ result.type = TextTags[FirstCheck]
        /\ (json_loads_ok(PayloadText) /\ contains(PayloadText, 44) /\ contains(PayloadText, 10))
              => result.type = "json"
        /\ (Braced /\ ~json_loads_ok(PayloadText)) => result.type # "json"

\* C12 amended: the tag is that of the first matching check in the order http,
\* json, xml, email, url, csv, text; a payload whose stripped text starts with
\* "{" or "[" and that json.loads accepts is "json" even when the CSV check
\* matches it too; one that starts so and does not parse is never "json" and gets
\* the tag of the first later check that matches.
C12_FirstMatchWins ==
    (classified /\ payload # <<>>) =>
        /\ result.type = TextTags[FirstCheck]
        /\ (Braced /\ json_loads_ok(PayloadText)) => result.type = "json"
        /\ (Braced /\ ~json_loads_ok(PayloadText)) =>
              /\ result.type # "json"
              /\ result.type = TextTags[CHOOSE k \in 3..7 :
                                   TextChecks[k] /\ \A j \in 3..(k - 1) : ~TextChecks[j]]

C12_Witness ==
    /\ classified /\ Braced /\ json_loads_ok(PayloadText)
    /\ looks_like_csv(PayloadText)
    /\ result.type = "json"

C14_WelcomeFirst ==
    /\ [](/\ out_welcome = (IF pc = "start" THEN 0 ELSE 1)
          /\ pc \in {"start", "welcome"} =>
                /\ out_acks = 0 /\ out_notices = 0 /\ chunks_read = 0
                /\ exit_cause = "none" /\ ~locals_bound
          /\ (out_acks > 0 \/ out_notices > 0 \/ chunks_read > 0
              \/ exit_cause \in {"peer_closed", "read_error"}) =>
                (out_welcome = 1 /\ locals_bound))
    /\ [][ /\ pc = "start" =>
                 /\ pc' = "welcome" /\ out_welcome' = 1 /\ last_line' = "welcome"
                 /\ out_acks' = 0 /\ out_notices' = 0
           /\ (pc # "read" /\ pc' = "read") => pc \in {"welcome", "ack", "notice"}
           /\ (pc = "welcome" /\ pc' # "read") =>
                 (pc' = "finally" /\ exit_cause' \in {"write_error", "cancelled"})
           /\ (chunks_read' # chunks_read \/ out_acks' # out_acks
               \/ out_notices' # out_notices) => (pc = "read" /\ out_welcome = 1)
         ]_vars

C14_Witness ==
    /\ pc = "notice" /\ out_welcome = 1 /\ out_acks = 2 /\ out_notices = 1
    /\ last_line = "notice"

\* C15: the Session Summary reports as total_messages the number of non-empty
\* chunks of the whole session and as total_data_size the bytes of the chunks
\* appended since the last buffer reset: all bytes read less the bytes the
\* Buffer Summaries reported.
C15_SummaryTotals ==
    /\ session_summaries = 0 => session_summary = NoSummary
    /\ session_summaries > 0 =>
          /\ session_summary.message_count = chunks_read
          /\ session_summary.total_size = bytes_read - bytes_summarised
          /\ buffer_summaries = 0 => session_summary.total_size = bytes_read
          /\ buffer_summaries > 0 =>
                /\ bytes_summarised >= buffer_summary.total_size
                /\ session_summary.message_count >= buffer_summary.message_count

C15_Witness ==
    /\ pc = "done" /\ session_summaries = 1 /\ buffer_summaries = 1
    /\ session_summary.message_count = buffer_summary.message_count + 1
    /\ session_summary.total_size = 7
    /\ buffer_summary.total_size > BUFFER_CAP

\* C16: try_decode_text returns text for every byte string, so every
\* non-empty payload takes the text branch: its tag is one of the seven text
\* tags, its content is the decoded text, and neither the signature table nor
\* "binary" is ever the result.
C16_AlwaysText ==
    /\ try_decode_text(payload).ok
    /\ Len(try_decode_text(payload).text) <= Len(payload)
    /\ (classified /\ payload # <<>>) =>
          /\ try_decode_text(payload).text # <<>>
          /\ result.type \in TextProtocols
          /\ result.type = detect_text(try_decode_text(payload).text)
          /\ result.has_content /\ result.content = try_decode_text(payload).text
          /\ result.size = Len(payload)

C16_Witness ==
    /\ classified
    /\ ~decode_utf8(payload).ok /\ ~decode_ascii(payload).ok /\ ~decode_cp1252(payload).ok
    /\ detect_binary(payload) = "zip"
    /\ result.type = "text"

\* C17: the buffer holds at most the cap whenever the handler is about to
\* read, never more than the cap and one read, and a buffer of exactly the cap
\* is kept when its acknowledgment is flushed.
C17_CapAtTopOfLoop ==
    /\ [](/\ pc = "read" => data_buffer <= BUFFER_CAP
          /\ data_buffer <= BUFFER_CAP + READ_SIZE)
    /\ [][ (pc = "ack" /\ data_buffer = BUFFER_CAP /\ pc' = "read") =>
               (data_buffer' = BUFFER_CAP /\ buffer_summaries' = buffer_summaries) ]_vars

C17_Witness ==
    pc = "read" /\ data_buffer = BUFFER_CAP /\ buffer_summaries = 0 /\ last_line = "ack"

\* C18: the step of an idle timeout writes one timeout notice and changes
\* nothing else of the session but the position of the handler; the flush of
\* the notice changes the position only.
C18_TimeoutFrame ==
    [][ /\ out_notices' # out_notices =>
              /\ pc = "read" /\ pc' = "notice"
              /\ out_notices' = out_notices + 1 /\ last_line' = "notice"
              /\ UNCHANGED <<locals_bound, message_count, data_buffer, data, ack,
                             out_welcome, out_acks, logged_data, buffer_summaries,
                             buffer_summary, session_summaries, session_summary,
                             close_calls, exit_cause, chunks_read, short_reads,
                             bytes_read, bytes_summarised>>
        /\ (pc = "notice" /\ pc' = "read") =>
              UNCHANGED <<locals_bound, message_count, data_buffer, data, ack, last_line,
                          out_welcome, out_acks, out_notices, logged_data,
                          buffer_summaries, buffer_summary, session_summaries,
                          session_summary, close_calls, exit_cause, chunks_read,
                          short_reads, bytes_read, bytes_summarised>>
      ]_vars

C18_Witness ==
    /\ pc = "notice" /\ out_notices = 2 /\ last_line = "notice"
    /\ message_count = 2 /\ data_buffer = 24 /\ out_acks = 2 /\ logged_data = 2

====
